---- MODULE Spec2Model ----
(***************************************************************************)
(* Model of the orchestration state machine of the financial research      *)
(* agent: the LangGraph workflow (src/workflows/graph.py, nodes.py) and    *)
(* the five agents it sequences (src/agents/*.py).                         *)
(*                                                                         *)
(* Conventions                                                             *)
(*  - an optional value (Python None or an object) is a sequence of        *)
(*    length 0 or 1: <<>> is None, <<v>> is the object v;                  *)
(*  - a text is a sequence of parts, so "" is <<>> and concatenation is \o;*)
(*  - a confidence is kept in tenths (5 is 0.5, 8 is 0.8, 9 is 0.9);       *)
(*  - a ticker is a number in 1..NumTickers; a quote, a filing or a news   *)
(*    item is named by the ticker it belongs to.                           *)
(***************************************************************************)
EXTENDS Integers, Sequences, FiniteSets, TLC

\* ------------------------------------------------------------------ bounds
NumTickers == 2
Tickers == 1..NumTickers

\* Steps the graph executor allows before it gives up on a run.
RecursionLimit == 25

\* ----------------------------------------------------------------- helpers
None == <<>>
Some(v) == <<v>>
Has(o) == o # <<>>
Val(o) == o[1]

InSeq(x, s) == \E i \in 1..Len(s) : s[i] = x

\* The tickers of a set in the order a loop over the list visits them.
RECURSIVE SetToSeq(_)
SetToSeq(S) ==
    IF S = {} THEN <<>>
    ELSE LET m == CHOOSE x \in S : \A y \in S : x <= y
         IN <<m>> \o SetToSeq(S \ {m})

\* ------------------------------------------------------------ shared state
\* AgentState as run() and run_with_state() build it.
InitialState(q) ==
    [query            |-> Some(q),
     intent           |-> None,
     collected_data   |-> None,
     rag_context      |-> None,
     analysis         |-> None,
     response         |-> None,
     errors           |-> <<>>,
     current_agent    |-> None,
     completed_agents |-> <<>>]

\* BaseAgent.update_state with the agent recorded at every call.
update_state_always_append(name, state, updates) ==
    LET new_state == updates @@ state
    IN  [new_state EXCEPT
            !.current_agent = Some(name),
            !.completed_agents = Append(new_state.completed_agents, name)]

\* BaseAgent.update_state: copy, overwrite, record the agent once.
update_state(name, state, updates) ==
    LET new_state == updates @@ state
        completed == new_state.completed_agents
    IN  [new_state EXCEPT
            !.current_agent = Some(name),
            !.completed_agents =
                IF InSeq(name, completed) THEN completed
                ELSE Append(completed, name)]

\* An add_error that starts the error list afresh at every failure.
add_error_overwrite(name, state, error) ==
    update_state(name, state,
                 [errors |-> <<[agent |-> name,
                                error |-> error.text,
                                type  |-> error.type]>>])

\* BaseAgent.add_error: append {agent, error, type} and update.
add_error(name, state, error) ==
    LET errors == Append(state.errors,
                         [agent |-> name,
                          error |-> error.text,
                          type  |-> error.type])
    IN  update_state(name, state, [errors |-> errors])

Exc(type, text) == [type |-> type, text |-> text]

\* ------------------------------------------------------------ RouterAgent
IntentTypes == {"financial_analysis", "market_data", "news_sentiment",
                "document_search", "comparison", "general"}

\* Confidence of the conservative default Intent (0.5).
DefaultConfidence == 5
\* Confidence given to a parsed payload that names none (0.8).
ParsedConfidence == 8

\* A fallback Intent that leaves news out.
DefaultIntent_nonews(extracted_tickers) ==
    [intent_type          |-> "general",
     tickers              |-> extracted_tickers,
     requires_rag         |-> TRUE,
     requires_market_data |-> TRUE,
     requires_news        |-> FALSE,
     confidence           |-> DefaultConfidence]

\* The Intent both fallback paths build.
DefaultIntent(extracted_tickers) ==
    [intent_type          |-> "general",
     tickers              |-> extracted_tickers,
     requires_rag         |-> TRUE,
     requires_market_data |-> TRUE,
     requires_news        |-> TRUE,
     confidence           |-> DefaultConfidence]

\* dict.get(key, default) on an optional payload field.
Get(field, default) == IF Has(field) THEN Val(field) ELSE default

Returned(v) == [raised |-> FALSE, exc |-> "none", value |-> Some(v)]
Raised(type) == [raised |-> TRUE, exc |-> type, value |-> None]

\* RouterAgent._parse_intent.  llm_response.kind is
\*   "nojson"  : re.search finds no {...}: ValueError, which the handler
\*               for (JSONDecodeError, KeyError) does not catch;
\*   "badjson" : json.loads raises JSONDecodeError: caught, default Intent;
\*   "json"    : a payload; when a field has a type QueryIntent rejects
\*               (illTyped) the constructor raises ValidationError.
_parse_intent(llm_response, extracted_tickers) ==
    IF llm_response.kind = "nojson" THEN Raised("ValueError")
    ELSE IF llm_response.kind = "badjson"
        THEN Returned(DefaultIntent(extracted_tickers))
    ELSE IF llm_response.illTyped THEN Raised("ValidationError")
    ELSE LET intent_type_str == Get(llm_response.intent_type, "general")
             intent_type == IF intent_type_str \in IntentTypes
                            THEN intent_type_str ELSE "general"
         IN Returned(
             [intent_type          |-> intent_type,
              tickers              |-> extracted_tickers \cup llm_response.tickers,
              requires_rag         |-> Get(llm_response.requires_rag, TRUE),
              requires_market_data |-> Get(llm_response.requires_market_data, TRUE),
              requires_news        |-> Get(llm_response.requires_news, FALSE),
              confidence           |-> Get(llm_response.confidence, ParsedConfidence)])

\* The outcome of _parse_intent inside RouterAgent.execute; "notcalled" when
\* invoke_llm raised before it.
ParseOutcome(llm_response, extracted_tickers) ==
    IF llm_response.kind = "raise"
    THEN [raised |-> FALSE, exc |-> "notcalled", value |-> None]
    ELSE _parse_intent(llm_response, extracted_tickers)

\* RouterAgent.execute.
RouterExecute(state, llm_response) ==
    IF ~Has(state.query)
    THEN add_error("router", state, Exc("ValueError", "No query provided"))
    ELSE LET extracted_tickers == Val(state.query).mentions
             parsed == ParseOutcome(llm_response, extracted_tickers)
         IN IF llm_response.kind = "raise" \/ parsed.raised
            THEN update_state("router", state,
                    [intent |-> Some(DefaultIntent(extracted_tickers))])
            ELSE update_state("router", state, [intent |-> parsed.value])

\* What the classification call can answer.
OptBool == {None, Some(TRUE), Some(FALSE)}
NoPayload(kind) ==
    [kind |-> kind, illTyped |-> FALSE, intent_type |-> None, tickers |-> {},
     requires_rag |-> None, requires_market_data |-> None,
     requires_news |-> None, confidence |-> None]
\* The rest of a payload: nothing, a known type with confidence and a
\* ticker, or a type the mapping does not know.
Shapes ==
    {[intent_type |-> None, confidence |-> None, tickers |-> {}],
     [intent_type |-> Some("market_data"), confidence |-> Some(9),
      tickers |-> {NumTickers}],
     [intent_type |-> Some("bogus"), confidence |-> None, tickers |-> {}]}
RouterResponses ==
    {NoPayload("raise"), NoPayload("nojson"), NoPayload("badjson")}
    \cup {[NoPayload("json") EXCEPT !.illTyped = TRUE]}
    \cup {[kind |-> "json", illTyped |-> FALSE,
           intent_type |-> shape.intent_type, tickers |-> shape.tickers,
           requires_rag |-> rag, requires_market_data |-> market,
           requires_news |-> news, confidence |-> shape.confidence] :
          shape \in Shapes, rag \in OptBool, market \in OptBool,
          news \in OptBool}

\* --------------------------------------------------------- CollectorAgent
\* CacheService.generate_key: the prefix and a digest of the joined parts;
\* the digest is taken as injective, so the parts stand for it.
generate_key(parts) == <<"fra", parts>>

\* The time-to-live, in seconds, of a quote written to the cache.
QuoteTtl == 300

\* What the loop of _collect_market_data did for one ticker: whether the
\* cache held the ticker's quote when its turn came, the key looked up
\* (None without a cache), whether the lookup was a hit, how the fetch went
\* ("none" when there was no fetch) and the key and time-to-live of the
\* cache write (None when nothing was written).
QuoteStep(ticker, held, lookup, hit, fetch, wrote) ==
    [ticker |-> ticker, held |-> held, lookup |-> lookup, hit |-> hit,
     fetch |-> fetch, wrote |-> wrote]

\* A market task that never consults the cache: every ticker is fetched.
RECURSIVE _collect_market_data_always_fetch(_, _, _, _)
_collect_market_data_always_fetch(tickers, hasCache, cached, quote) ==
    IF tickers = <<>>
    THEN [market_data |-> <<>>, cached |-> cached, quotes |-> <<>>]
    ELSE LET ticker == Head(tickers)
             key == generate_key(<<"quote", ticker>>)
             ok == quote[ticker] = "ok"
             rest == _collect_market_data_always_fetch(
                         Tail(tickers), hasCache,
                         IF ok /\ hasCache THEN cached \cup {ticker} ELSE cached,
                         quote)
         IN [market_data |-> (IF ok THEN <<ticker>> ELSE <<>>) \o rest.market_data,
             cached |-> rest.cached,
             quotes |-> <<QuoteStep(ticker, hasCache /\ ticker \in cached,
                                    IF hasCache THEN Some(key) ELSE None,
                                    FALSE, quote[ticker],
                                    IF ok /\ hasCache
                                    THEN Some([key |-> key, ttl |-> QuoteTtl])
                                    ELSE None)>> \o rest.quotes]

\* CollectorAgent._collect_market_data over the tickers still to visit:
\* a cached quote is used as it is; otherwise the quote is fetched and, when
\* the fetch succeeds, appended and written to the cache.
RECURSIVE _collect_market_data(_, _, _, _)
_collect_market_data(tickers, hasCache, cached, quote) ==
    IF tickers = <<>>
    THEN [market_data |-> <<>>, cached |-> cached, quotes |-> <<>>]
    ELSE LET ticker == Head(tickers)
             cache_key == IF hasCache
                          THEN Some(generate_key(<<"quote", ticker>>))
                          ELSE None
             hit == hasCache /\ ticker \in cached
             fetched == ~hit /\ quote[ticker] = "ok"
             wrote == fetched /\ hasCache /\ Has(cache_key)
             cached1 == IF wrote THEN cached \cup {ticker} ELSE cached
             step == QuoteStep(ticker, hasCache /\ ticker \in cached,
                               cache_key, hit,
                               IF hit THEN "none" ELSE quote[ticker],
                               IF wrote
                               THEN Some([key |-> Val(cache_key), ttl |-> QuoteTtl])
                               ELSE None)
             rest == _collect_market_data(Tail(tickers), hasCache, cached1, quote)
         IN [market_data |-> (IF hit \/ fetched THEN <<ticker>> ELSE <<>>)
                             \o rest.market_data,
             cached |-> rest.cached,
             quotes |-> <<step>> \o rest.quotes]

\* CollectorAgent._collect_news: one batched call for all tickers.
_collect_news(tickers, news) ==
    IF news = "ok" THEN [news_items |-> tickers] ELSE [news_items |-> <<>>]

\* CollectorAgent._collect_cvm_info: one call per ticker.
RECURSIVE _collect_cvm_info(_, _)
_collect_cvm_info(tickers, filings) ==
    IF tickers = <<>> THEN [cvm_data |-> <<>>]
    ELSE [cvm_data |-> (IF filings[Head(tickers)] = "ok"
                        THEN <<Head(tickers)>> ELSE <<>>)
                       \o _collect_cvm_info(Tail(tickers), filings).cvm_data]

EmptyCollectedData ==
    [market_data |-> <<>>, news_items |-> <<>>, raw_data |-> [cvm |-> None],
     sources |-> <<>>]

\* The tasks CollectorAgent.execute dispatches, in the order it appends them.
DispatchedTasks(intent) ==
    (IF intent.requires_market_data /\ intent.tickers # {}
     THEN <<"market">> ELSE <<>>)
    \o (IF intent.requires_news /\ intent.tickers # {}
        THEN <<"news">> ELSE <<>>)
    \o (IF intent.tickers # {} THEN <<"cvm">> ELSE <<>>)

\* The loop over the results of asyncio.gather(return_exceptions=True):
\* an exception is skipped, a dict is merged and its source name appended.
RECURSIVE MergeResults(_, _, _, _)
MergeResults(tasks, results, raises, collected_data) ==
    IF tasks = <<>> THEN collected_data
    ELSE LET task == Head(tasks)
             merged ==
                IF task \in raises THEN collected_data
                ELSE IF task = "market" THEN
                    [collected_data EXCEPT
                        !.market_data = @ \o results.market.market_data,
                        !.sources = Append(@, "yahoo_finance")]
                ELSE IF task = "news" THEN
                    [collected_data EXCEPT
                        !.news_items = @ \o results.news.news_items,
                        !.sources = Append(@, "news")]
                ELSE
                    [collected_data EXCEPT
                        !.raw_data = [cvm |-> Some(results.cvm.cvm_data)],
                        !.sources = Append(@, "cvm")]
         IN MergeResults(Tail(tasks), results, raises, merged)

\* How a dispatched task went: "raised", "failed" (every fetch it made gave
\* a failure result), "ok" otherwise; "notrun" when it was not dispatched.
TaskStatus(task, tasks, raises, tickers, hasCache, cached, out) ==
    IF ~InSeq(task, tasks) THEN "notrun"
    ELSE IF task \in raises THEN "raised"
    ELSE IF task = "market" THEN
        IF /\ \A t \in tickers : ~(hasCache /\ t \in cached) /\ out.quote[t] = "fail"
        THEN "failed" ELSE "ok"
    ELSE IF task = "news" THEN
        IF out.news = "fail" THEN "failed" ELSE "ok"
    ELSE IF \A t \in tickers : out.filings[t] = "fail" THEN "failed" ELSE "ok"

\* CollectorAgent.execute; the result carries the new state, the cache as
\* the market task left it, and how each task went.
CollectorExecute(state, hasCache, cached, out) ==
    IF ~Has(state.intent)
    THEN [state  |-> add_error("collector", state,
                               Exc("ValueError", "No intent provided")),
          cached |-> cached,
          quotes |-> <<>>,
          tasks  |-> [market |-> "notrun", news |-> "notrun", cvm |-> "notrun"]]
    ELSE LET intent == Val(state.intent)
             tickers == SetToSeq(intent.tickers)
             tasks == DispatchedTasks(intent)
             raises == {out.raises} \cap {"market", "news", "cvm"}
             market == IF InSeq("market", tasks) /\ "market" \notin raises
                       THEN _collect_market_data(tickers, hasCache, cached, out.quote)
                       ELSE [market_data |-> <<>>, cached |-> cached,
                             quotes |-> <<>>]
             results == [market |-> market,
                         news   |-> _collect_news(tickers, out.news),
                         cvm    |-> _collect_cvm_info(tickers, out.filings)]
             collected_data == MergeResults(tasks, results, raises, EmptyCollectedData)
         IN [state  |-> update_state("collector", state,
                            [collected_data |-> Some(collected_data)]),
             cached |-> market.cached,
             quotes |-> market.quotes,
             tasks  |-> [t \in {"market", "news", "cvm"} |->
                            TaskStatus(t, tasks, raises, intent.tickers,
                                       hasCache, cached, out)]]

\* What the external calls of one collector run can do.
CollectorOutcomes ==
    [quote   : [Tickers -> {"ok", "fail"}],
     news    : {"ok", "fail"},
     filings : [Tickers -> {"ok", "fail"}],
     raises  : {"none", "market", "news", "cvm"}]

\* --------------------------------------------------------------- RAGAgent
\* RAGAgent.execute; retrieval is "raise", "empty" or "chunks".
RAGExecute(state, retrieval) ==
    IF ~Has(state.query) \/ ~Has(state.intent)
    THEN add_error("rag", state, Exc("ValueError", "Query and intent required"))
    ELSE IF ~Val(state.intent).requires_rag
    THEN update_state("rag", state, [rag_context |-> Some([chunks |-> <<>>])])
    ELSE IF retrieval = "raise"
    THEN add_error("rag", state, Exc("Exception", "retrieval failed"))
    ELSE update_state("rag", state,
            [rag_context |-> Some([chunks |-> IF retrieval = "chunks"
                                              THEN <<"chunk">> ELSE <<>>])])

\* WorkflowNodes.retrieve_documents: without a retriever the state is
\* returned as it came.
retrieve_documents(state, hasRetriever, retrieval) ==
    IF hasRetriever THEN RAGExecute(state, retrieval) ELSE state

RetrievalOutcomes == {"raise", "empty", "chunks"}

\* ----------------------------------------------------------- AnalystAgent
\* AnalystAgent._build_analysis_context.  The block written for each quote
\* formats market_cap with the format specification
\* ",.0f if md.market_cap else 'N/A'", which Python rejects (ValueError for
\* a number, TypeError for None): building the context raises as soon as
\* there is one quote.
_build_analysis_context(state) ==
    IF Has(state.collected_data) /\ Val(state.collected_data).market_data # <<>>
    THEN Raised("ValueError")
    ELSE Returned(
        <<"query">>
        \o (IF Has(state.intent) THEN <<"intent">> ELSE <<>>)
        \o (IF Has(state.collected_data)
               /\ Val(state.collected_data).news_items # <<>>
            THEN <<"news">> ELSE <<>>)
        \o (IF Has(state.collected_data)
               /\ Has(Val(state.collected_data).raw_data.cvm)
               /\ Val(Val(state.collected_data).raw_data.cvm) # <<>>
            THEN <<"cvm">> ELSE <<>>)
        \o (IF Has(state.rag_context) /\ Val(state.rag_context).chunks # <<>>
            THEN <<"documents">> ELSE <<>>)
        \o <<"instructions">>)

\* AnalystAgent._get_sources.
_get_sources(state) ==
    (IF Has(state.collected_data)
     THEN Val(state.collected_data).sources ELSE <<>>)
    \o (IF Has(state.rag_context) /\ Val(state.rag_context).chunks # <<>>
        THEN <<"document">> ELSE <<>>)

\* AnalystAgent.execute; the call of _build_analysis_context is made before
\* the try block, so what it raises leaves execute.  llm is "ok" (the answer
\* parses to an AnalysisResult) or "raise" (the call or the parsing raises
\* inside the try block).
AnalystExecute(state, llm) ==
    IF ~Has(state.query)
    THEN Returned(add_error("analyst", state, Exc("ValueError", "Query required")))
    ELSE IF _build_analysis_context(state).raised
    THEN Raised(_build_analysis_context(state).exc)
    ELSE IF llm = "raise"
    THEN Returned(add_error("analyst", state,
                            Exc("AgentError", "LLM invocation failed")))
    ELSE Returned(update_state("analyst", state,
                    [analysis |-> Some([sources_used |-> _get_sources(state)])]))

AnalystOutcomes == {"ok", "raise"}

\* ---------------------------------------------------------- ReporterAgent
\* ReporterAgent._determine_format.
_determine_format(query) == IF query.executive THEN "executive" ELSE "markdown"

\* ReporterAgent._add_footer: the footer is never empty.
_add_footer(content) == content \o <<"footer">>

\* ReporterAgent._generate_response: the generated text, with the footer
\* in markdown format only.
_generate_response(text, response_format) ==
    IF response_format = "markdown" THEN _add_footer(text) ELSE text

\* ReporterAgent._generate_fallback_response: starts with a fixed sentence.
_generate_fallback_response(state) ==
    <<"could not complete analysis">>
    \o (IF Has(state.collected_data)
           /\ Val(state.collected_data).market_data # <<>>
        THEN <<"market">> ELSE <<>>)
    \o (IF Has(state.collected_data)
           /\ Val(state.collected_data).news_items # <<>>
        THEN <<"news">> ELSE <<>>)
    \o <<"hint">>

\* A reporter that asks the generation call for the text with or without
\* an analysis.
ReporterExecute_always_generate(state, llm) ==
    IF ~Has(state.query)
    THEN add_error("reporter", state, Exc("ValueError", "Query required"))
    ELSE IF llm.kind = "raise"
    THEN add_error("reporter", state, Exc("AgentError", "LLM invocation failed"))
    ELSE update_state("reporter", state,
            [response |-> Some([content  |-> _generate_response(
                                                llm.text,
                                                _determine_format(Val(state.query))),
                                format   |-> _determine_format(Val(state.query)),
                                analysis |-> state.analysis])])

\* ReporterAgent.execute; llm is "raise" or the generated text.
ReporterExecute(state, llm) ==
    IF ~Has(state.query)
    THEN add_error("reporter", state, Exc("ValueError", "Query required"))
    ELSE LET response_format == _determine_format(Val(state.query))
         IN IF Has(state.analysis) /\ llm.kind = "raise"
            THEN add_error("reporter", state,
                           Exc("AgentError", "LLM invocation failed"))
            ELSE LET content ==
                        IF Has(state.analysis)
                        THEN _generate_response(llm.text, response_format)
                        ELSE _generate_fallback_response(state)
                 IN update_state("reporter", state,
                        [response |-> Some([content  |-> content,
                                            format   |-> response_format,
                                            analysis |-> state.analysis])])

ReporterOutcomes ==
    {[kind |-> "raise", text |-> <<>>],
     [kind |-> "text", text |-> <<>>],
     [kind |-> "text", text |-> <<"report">>]}

\* ----------------------------------------------------- routing (graph.py)
\* A router edge that asks the news flag, not the ticker list.
_route_after_router_flags(state) ==
    IF ~Has(state.intent) THEN "collect_and_retrieve"
    ELSE LET intent == Val(state.intent)
             needs_collection == intent.requires_market_data \/ intent.requires_news
             needs_rag == intent.requires_rag
         IN IF needs_collection /\ needs_rag THEN "collect_and_retrieve"
            ELSE IF needs_collection THEN "collect_only"
            ELSE IF needs_rag THEN "retrieve_only"
            ELSE "analyze_direct"

\* FinancialResearchWorkflow._route_after_router.
_route_after_router(state) ==
    IF ~Has(state.intent) THEN "collect_and_retrieve"
    ELSE LET intent == Val(state.intent)
             needs_collection == intent.requires_market_data \/ intent.tickers # {}
             needs_rag == intent.requires_rag
         IN IF needs_collection /\ needs_rag THEN "collect_and_retrieve"
            ELSE IF needs_collection THEN "collect_only"
            ELSE IF needs_rag THEN "retrieve_only"
            ELSE "analyze_direct"

\* A collector edge that asks what was collected, not the Intent.
_route_after_collector_by_outcome(state) ==
    IF Has(state.collected_data)
       /\ Val(state.collected_data).market_data # <<>>
    THEN "analyze" ELSE "retrieve"

\* FinancialResearchWorkflow._route_after_collector.
_route_after_collector(state) ==
    IF Has(state.intent) /\ Val(state.intent).requires_rag
    THEN "retrieve" ELSE "analyze"

\* The error ceiling of WorkflowNodes.is_complete.
ErrorCeiling == 5

\* A completion test that looks at the error count first.
is_complete_errors_first(state) ==
    IF Len(state.errors) > ErrorCeiling THEN "error"
    ELSE IF Has(state.response) /\ Val(state.response).content # <<>>
    THEN "complete"
    ELSE "retry"

\* WorkflowNodes.is_complete.
is_complete(state) ==
    IF Has(state.response) /\ Val(state.response).content # <<>>
    THEN "complete"
    ELSE IF Len(state.errors) > ErrorCeiling THEN "error"
    ELSE "retry"

\* FinancialResearchWorkflow._route_after_reporter.
_route_after_reporter(state) == is_complete(state)

\* The conditional edges and the plain edges of _build_graph: the node a
\* routing label leads to.
EdgeTarget(label) ==
    CASE label = "collect_and_retrieve" -> "collector"
      [] label = "collect_only"         -> "collector"
      [] label = "retrieve_only"        -> "rag"
      [] label = "analyze_direct"       -> "analyst"
      [] label = "retrieve"             -> "rag"
      [] label = "analyze"              -> "analyst"
      [] label = "always_analyst"       -> "analyst"
      [] label = "always_reporter"      -> "reporter"
      [] label = "complete"             -> "END"
      [] label = "retry"                -> "analyst"
      [] label = "error"                -> "END"

\* ------------------------------------------------------------- the run
VARIABLES
    entry,        \* the entry point that returned: "run" or "run_with_state"
    pc,           \* "graph" while the graph executes, "returned" afterwards
    node,         \* the node the graph executes next, "END", or "raised"
    state,        \* the AgentState the graph threads through the nodes
    visited,      \* the nodes executed so far, in order
    route,        \* the label the last edge function returned
    raisedBy,     \* who raised out of the graph: "none", a node, "graph"
    asked,        \* what the classification call answered the router
    parsed,       \* outcome of the router's call of _parse_intent
    tasks,        \* how the collector's tasks went
    hasRetriever, \* a RAGRetriever is configured
    hasCache,     \* a CacheService is configured
    cached,       \* tickers whose quote the cache holds
    quotes,       \* what the market task did for each ticker, in order
    result        \* what the entry point gave its caller

workflowVars == <<entry, pc, node, state, visited, route, raisedBy, asked, parsed,
                  tasks, hasRetriever, hasCache, cached, quotes, result>>

\* One call of BaseTool.execute, followed attempt by attempt.
VARIABLES
    tool,         \* the tool called: its name, "none" when no call is modelled
    calls,        \* how each invocation of _execute ended so far, in order
    toolResult    \* the ToolResult execute returned, or what it raised

toolVars == <<tool, calls, toolResult>>

\* One call of DocumentChunker.chunk_document or chunk_with_tables.
VARIABLES
    document,     \* the text handed to the chunker
    tables,       \* the tables handed to chunk_with_tables
    chunks        \* the list of chunks returned, None before the call

chunkerVars == <<document, tables, chunks>>

\* Calls of RAGRetriever.hybrid_search on one state of the vector index.
VARIABLES
    store,        \* what the vector index holds for the query, best first
    keywords,     \* the keyword list of the calls
    top_k,        \* the top_k of the calls
    searches      \* what each call returned or raised, in order

retrieverVars == <<store, keywords, top_k, searches>>

\* One call of RAGRetriever.format_context.
VARIABLES
    rag_context,  \* the chunks of the context to format
    max_tokens,   \* the token budget
    formatted     \* the lengths of the parts of the text returned, None before

formatVars == <<rag_context, max_tokens, formatted>>

\* Calls of update_state, add_error and execute on state records that are
\* held by reference, as Python holds them.
VARIABLES
    heap,         \* the objects allocated so far; an object's id is its index
    history       \* each call made: its argument, its result, the argument's
                  \* contents before the call

recordVars == <<heap, history>>

\* One call of CollectorAgent.execute, followed sub-task by sub-task.
VARIABLES
    wanted,       \* the Intent of the state handed to the collector
    fetched,      \* how each external call of the sub-tasks goes
    finished,     \* the sub-tasks that have completed, in completion order
    collected     \* the CollectedData execute built, None before it returns

gatherVars == <<wanted, fetched, finished, collected>>

\* Concurrent calls of CacheService.check_rate_limit for one identifier
\* within one window.
VARIABLES
    counter,      \* the value the cache holds under the identifier's key
    requests      \* each request: where its call stands, what it read, and
                  \* what the call returned

limiterVars == <<counter, requests>>

restVars == <<recordVars, gatherVars, limiterVars>>

\* The components that are followed on their own, outside a workflow run.
unitVars == <<toolVars, chunkerVars, retrieverVars, formatVars, restVars>>

vars == <<workflowVars, unitVars>>

Nodes == {"router", "collector", "rag", "analyst", "reporter"}

\* No call of a tool is being followed.
ToolIdle ==
    /\ tool = "none"
    /\ calls = <<>>
    /\ toolResult = None

\* No document is being chunked.
ChunkerIdle ==
    /\ document = [paras |-> <<>>, padded |-> FALSE]
    /\ tables = <<>>
    /\ chunks = None

\* No search is being followed.
RetrieverIdle ==
    /\ store = <<>>
    /\ keywords = <<>>
    /\ top_k = 0
    /\ searches = <<>>

\* No context is being formatted.
FormatIdle ==
    /\ rag_context = <<>>
    /\ max_tokens = 0
    /\ formatted = None

\* No state record is being followed.
RecordIdle ==
    /\ heap = <<>>
    /\ history = <<>>

\* No collector call is being followed.
GatherIdle ==
    /\ wanted = None
    /\ fetched = None
    /\ finished = <<>>
    /\ collected = None

\* No request is being followed.
LimiterIdle ==
    /\ counter = None
    /\ requests = <<>>

RestIdle == RecordIdle /\ GatherIdle /\ LimiterIdle

UnitsIdle == ToolIdle /\ ChunkerIdle /\ RetrieverIdle /\ FormatIdle /\ RestIdle

Queries == [mentions : SUBSET Tickers, executive : BOOLEAN]

NoTasks == [market |-> "notrun", news |-> "notrun", cvm |-> "notrun"]
NotParsed == [raised |-> FALSE, exc |-> "notcalled", value |-> None]
NoResult == [kind |-> "none", content |-> <<>>]

\* A workflow object with its collaborators, and the initial state that
\* run() and run_with_state() alike hand to the graph; which of the two
\* was called shows only when the graph has finished.
Init ==
    /\ entry = "none"
    /\ pc = "graph"
    /\ node = "router"
    /\ \E q \in Queries : state = InitialState(q)
    /\ visited = <<>>
    /\ route = "entry"
    /\ raisedBy = "none"
    /\ asked = NoPayload("none")
    /\ parsed = NotParsed
    /\ tasks = NoTasks
    /\ hasRetriever \in BOOLEAN
    /\ hasCache \in BOOLEAN
    /\ cached \in (IF hasCache THEN {{}, {1}} ELSE {{}})
    /\ quotes = <<>>
    /\ result = NoResult
    /\ UnitsIdle

\* The graph executor runs the node n.
Runs(n) ==
    /\ pc = "graph"
    /\ node = n
    /\ Len(visited) < RecursionLimit
    /\ visited' = Append(visited, n)

\* Node "router": WorkflowNodes.route_query, then _route_after_router.
route_query(responses) ==
    /\ Runs("router")
    /\ \E llm_response \in responses :
        /\ state' = RouterExecute(state, llm_response)
        /\ asked' = llm_response
        /\ parsed' = ParseOutcome(llm_response, Val(state.query).mentions)
    /\ route' = _route_after_router(state')
    /\ node' = EdgeTarget(route')
    /\ UNCHANGED <<entry, pc, raisedBy, tasks, hasRetriever, hasCache, cached, quotes, result>>
    /\ UNCHANGED unitVars

\* Node "collector": WorkflowNodes.collect_data, then _route_after_collector.
collect_data(outcomes) ==
    /\ Runs("collector")
    /\ \E out \in outcomes :
        LET r == CollectorExecute(state, hasCache, cached, out)
        IN /\ state' = r.state
           /\ cached' = r.cached
           /\ quotes' = r.quotes
           /\ tasks' = r.tasks
    /\ route' = _route_after_collector(state')
    /\ node' = EdgeTarget(route')
    /\ UNCHANGED <<entry, pc, raisedBy, asked, parsed, hasRetriever, hasCache, result>>
    /\ UNCHANGED unitVars

\* Node "rag": WorkflowNodes.retrieve_documents, then the edge to analyst.
retrieve_documents_node(outcomes) ==
    /\ Runs("rag")
    /\ \E retrieval \in outcomes :
        state' = retrieve_documents(state, hasRetriever, retrieval)
    /\ route' = "always_analyst"
    /\ node' = EdgeTarget(route')
    /\ UNCHANGED <<entry, pc, raisedBy, asked, parsed, tasks, hasRetriever, hasCache, cached, quotes, result>>
    /\ UNCHANGED unitVars

\* Node "analyst": WorkflowNodes.analyze_data, then the edge to reporter;
\* when the agent raises, the exception leaves the graph.
analyze_data(outcomes) ==
    /\ Runs("analyst")
    /\ \E llm \in outcomes :
        LET r == AnalystExecute(state, llm)
        IN IF r.raised
           THEN /\ node' = "raised"
                /\ raisedBy' = "analyst"
                /\ UNCHANGED <<state, route>>
           ELSE /\ state' = Val(r.value)
                /\ route' = "always_reporter"
                /\ node' = EdgeTarget(route')
                /\ UNCHANGED raisedBy
    /\ UNCHANGED <<entry, pc, asked, parsed, tasks, hasRetriever, hasCache, cached, quotes, result>>
    /\ UNCHANGED unitVars

\* Node "reporter": WorkflowNodes.generate_report, then
\* _route_after_reporter.
generate_report(outcomes) ==
    /\ Runs("reporter")
    /\ \E llm \in outcomes : state' = ReporterExecute(state, llm)
    /\ route' = _route_after_reporter(state')
    /\ node' = EdgeTarget(route')
    /\ UNCHANGED <<entry, pc, raisedBy, asked, parsed, tasks, hasRetriever, hasCache, cached, quotes, result>>
    /\ UNCHANGED unitVars

\* The executor stops a run that needs more steps than it allows: ainvoke
\* raises.
GraphRecursionError ==
    /\ pc = "graph"
    /\ node \in Nodes
    /\ Len(visited) >= RecursionLimit
    /\ node' = "raised"
    /\ raisedBy' = "graph"
    /\ UNCHANGED <<entry, pc, state, visited, route, asked, parsed, tasks,
                   hasRetriever, hasCache, cached, quotes, result>>
    /\ UNCHANGED unitVars

Response(content) == [kind |-> "response", content |-> content]

\* FinancialResearchWorkflow.run after ainvoke: the state's response if
\* there is one, a fixed message if there is none, and the error message if
\* ainvoke raised.
run ==
    /\ pc = "graph"
    /\ node \in {"END", "raised"}
    /\ entry' = "run"
    /\ result' = IF node = "raised"
                 THEN Response(<<"Erro ao processar consulta">>)
                 ELSE IF Has(state.response)
                 THEN Response(Val(state.response).content)
                 ELSE Response(<<"Nao foi possivel processar sua consulta">>)
    /\ pc' = "returned"
    /\ UNCHANGED <<node, state, visited, route, raisedBy, asked, parsed, tasks,
                   hasRetriever, hasCache, cached, quotes>>
    /\ UNCHANGED unitVars

\* FinancialResearchWorkflow.run_with_state after ainvoke, which it calls
\* outside any try block.
run_with_state ==
    /\ pc = "graph"
    /\ node \in {"END", "raised"}
    /\ entry' = "run_with_state"
    /\ result' = IF node = "raised"
                 THEN [kind |-> "exception", content |-> <<>>]
                 ELSE IF Has(state.response)
                 THEN Response(Val(state.response).content)
                 ELSE Response(<<"Processamento incompleto">>)
    /\ pc' = "returned"
    /\ UNCHANGED <<node, state, visited, route, raisedBy, asked, parsed, tasks,
                   hasRetriever, hasCache, cached, quotes>>
    /\ UNCHANGED unitVars

\* ------------------------------------------------------- specifications
\* A payload that names the three flags and nothing else.
Flags(rag, market, news) ==
    [NoPayload("json") EXCEPT !.requires_rag = Some(rag),
                              !.requires_market_data = Some(market),
                              !.requires_news = Some(news)]

\* A few answers of the classification call, one for each route.
FewRouterResponses ==
    {NoPayload("raise"), Flags(FALSE, FALSE, FALSE),
     Flags(TRUE, FALSE, FALSE), Flags(FALSE, TRUE, TRUE)}

AllOk == [quote |-> [t \in Tickers |-> "ok"], news |-> "ok",
          filings |-> [t \in Tickers |-> "ok"], raises |-> "none"]
AllFail == [quote |-> [t \in Tickers |-> "fail"], news |-> "fail",
            filings |-> [t \in Tickers |-> "fail"], raises |-> "none"]

\* A few collector runs: all fetches succeed, all fail, one task raises.
FewCollectorOutcomes ==
    {AllOk, AllFail, [AllFail EXCEPT !.raises = "cvm"]}

\* The workflow with every outcome of analysis and report at every pass of
\* the retry loop, up to the executor's recursion limit.
Next ==
    \/ route_query(FewRouterResponses)
    \/ collect_data({AllOk, AllFail})
    \/ retrieve_documents_node({"chunks", "raise"})
    \/ analyze_data(AnalystOutcomes)
    \/ generate_report(ReporterOutcomes)
    \/ GraphRecursionError
    \/ run
    \/ run_with_state

Spec == Init /\ [][Next]_vars

\* The workflow with every answer of the classification call; the later
\* stages succeed or fail once.
NextClassify ==
    \/ route_query(RouterResponses)
    \/ collect_data(FewCollectorOutcomes)
    \/ retrieve_documents_node({"chunks", "raise"})
    \/ analyze_data(AnalystOutcomes)
    \/ generate_report({[kind |-> "text", text |-> <<"report">>]})
    \/ run
    \/ run_with_state

SpecClassify == Init /\ [][NextClassify]_vars

\* The workflow with every outcome of the collector's fetches and of retrieval.
NextCollect ==
    \/ route_query(FewRouterResponses)
    \/ collect_data(CollectorOutcomes)
    \/ retrieve_documents_node(RetrievalOutcomes)
    \/ analyze_data(AnalystOutcomes)
    \/ generate_report({[kind |-> "text", text |-> <<"report">>]})
    \/ run
    \/ run_with_state

SpecCollect == Init /\ [][NextCollect]_vars

\* ----------------------------------------------------------- properties
Last(s) == s[Len(s)]
GraphOver == node \notin Nodes
Intent == Val(state.intent)

\* C1: every workflow run whose stages all return (with success, a recorded
\* failure or an empty response) ends in a terminal state of the machine:
\* done or errorDone.
C1_RunEndsInTerminalState ==
    (GraphOver /\ raisedBy \notin Nodes)
        => (node = "END" /\ route \in {"complete", "error"})

\* C2: whichever entry point was called, the caller gets a response with
\* non-empty content and never an exception.
C2_AlwaysNonEmptyResponse ==
    pc = "returned" => (result.kind = "response" /\ result.content # <<>>)

\* C3: no stage raises an exception out to the orchestrator.
C3_NoStageRaises == raisedBy \notin Nodes

\* C4: after collect the next stage is retrieve exactly when the Intent
\* needs retrieval, analyze otherwise; and a run whose Intent needs market
\* data and no retrieval visits classify, collect, analyze, report in that
\* order and never retrieve.
C4_RouteAfterCollect ==
    /\ (visited # <<>> /\ Last(visited) = "collector")
          => node = (IF Intent.requires_rag THEN "rag" ELSE "analyst")
    /\ (GraphOver /\ Has(state.intent)
        /\ Intent.requires_market_data /\ ~Intent.requires_rag)
          => /\ Len(visited) >= 4
             /\ SubSeq(visited, 1, 4) = <<"router", "collector", "analyst", "reporter">>
             /\ ~InSeq("rag", visited)

\* C5 as stated: after classify the next stage follows from the capability
\* flags alone: collect when market data or news is needed, else retrieve
\* when retrieval is needed, else analyze.
C5_RouteByFlagsAlone ==
    Len(visited) = 1
        => node = (IF Intent.requires_market_data \/ Intent.requires_news
                   THEN "collector"
                   ELSE IF Intent.requires_rag THEN "rag" ELSE "analyst")

\* C5 as amended: after classify the next stage is collect when the Intent
\* needs market data or names at least one ticker, else retrieve when it
\* needs retrieval, else analyze; the news flag plays no part.
C5_RouteByMarketOrTickers ==
    Len(visited) = 1
        => node = (IF Intent.requires_market_data \/ Intent.tickers # {}
                   THEN "collector"
                   ELSE IF Intent.requires_rag THEN "rag" ELSE "analyst")

\* A news-only Intent without tickers goes straight to analyze.
C5_Witness ==
    /\ Len(visited) = 1
    /\ Intent.requires_news /\ ~Intent.requires_market_data
    /\ ~Intent.requires_rag /\ Intent.tickers = {}
    /\ node = "analyst"

\* C6: after report the machine goes to done iff the state holds a response
\* with non-empty content, however many errors there are; otherwise to
\* errorDone iff more than 5 errors have accumulated; otherwise back to
\* analyze.
C6_RouteAfterReport ==
    (visited # <<>> /\ Last(visited) = "reporter")
        => LET nonEmpty == Has(state.response)
                           /\ Val(state.response).content # <<>>
               expected == IF nonEmpty THEN "complete"
                           ELSE IF Len(state.errors) > 5 THEN "error"
                           ELSE "retry"
           IN /\ route = expected
              /\ node # "raised"
                    => node = (IF expected = "retry" THEN "analyst" ELSE "END")

\* A run that is done although more than 5 errors have accumulated.
C6_Witness ==
    /\ visited # <<>> /\ Last(visited) = "reporter"
    /\ route = "complete"
    /\ Len(state.errors) > 5

ClassificationFailed ==
    \/ asked.kind \in {"raise", "nojson", "badjson"}
    \/ asked.kind = "json" /\ asked.illTyped

\* C7: when classification fails (the call raises, there is no payload, or
\* the payload is malformed) the classify stage returns the Intent general
\* with the three flags true and confidence 0.5, records classify as
\* completed, and the run goes on to the next stage.
C7_FailureGivesDefaultIntent ==
    (visited # <<>> /\ ClassificationFailed)
        => /\ Has(state.intent)
           /\ Intent.intent_type = "general"
           /\ Intent.requires_market_data
           /\ Intent.requires_rag
           /\ Intent.requires_news
           /\ Intent.confidence = 5
           /\ InSeq("router", state.completed_agents)
           /\ Len(visited) = 1
                => (node \in Nodes \ {"router"} /\ raisedBy = "none")

\* The call answered without any payload and the run is on its way to
\* collect.
C7_Witness ==
    /\ Len(visited) = 1
    /\ asked.kind = "nojson"
    /\ parsed.raised
    /\ node = "collector"

\* C8: _parse_intent, given output without any JSON payload, returns the
\* default Intent (general, confidence 0.5) and does not raise.
C8_ParseIntentReturnsDefault ==
    asked.kind = "nojson"
        => /\ ~parsed.raised
           /\ Has(parsed.value)
           /\ Val(parsed.value).intent_type = "general"
           /\ Val(parsed.value).confidence = 5

\* C9: when the payload parses, each capability flag is the payload's value
\* when the payload names it and true when the payload omits it.
C9_MissingFlagIsTrue ==
    (visited # <<>> /\ asked.kind = "json" /\ ~asked.illTyped)
        => /\ Intent.requires_market_data
                = (IF Has(asked.requires_market_data)
                   THEN Val(asked.requires_market_data) ELSE TRUE)
           /\ Intent.requires_rag
                = (IF Has(asked.requires_rag)
                   THEN Val(asked.requires_rag) ELSE TRUE)
           /\ Intent.requires_news
                = (IF Has(asked.requires_news)
                   THEN Val(asked.requires_news) ELSE TRUE)

TaskNames == {"market", "news", "cvm"}
SourceName(task) ==
    CASE task = "market" -> "yahoo_finance"
      [] task = "news"   -> "news"
      [] task = "cvm"    -> "cvm"
Contributed(task, collected_data) ==
    CASE task = "market" -> collected_data.market_data # <<>>
      [] task = "news"   -> collected_data.news_items # <<>>
      [] task = "cvm"    -> /\ Has(collected_data.raw_data.cvm)
                            /\ Val(collected_data.raw_data.cvm) # <<>>

\* C10: when exactly one dispatched sub-task fails (failure result or
\* exception), the collect stage completes, the other sources contribute
\* and are listed, and the failed source is not in the source list.
C10_FailedSourceAbsent ==
    (InSeq("collector", visited)
     /\ Cardinality({t \in TaskNames : tasks[t] \in {"failed", "raised"}}) = 1)
        => /\ InSeq("collector", state.completed_agents)
           /\ Has(state.collected_data)
           /\ \A t \in TaskNames :
                /\ tasks[t] \in {"failed", "raised"}
                     => ~InSeq(SourceName(t), Val(state.collected_data).sources)
                /\ tasks[t] = "ok"
                     => /\ InSeq(SourceName(t), Val(state.collected_data).sources)
                        /\ Contributed(t, Val(state.collected_data))

\* The steps of the market task's record.
QuoteSteps == {quotes[i] : i \in 1..Len(quotes)}

\* C13: for each ticker of market-data collection the quote is fetched if
\* and only if the cache lookup under the key of (quote, ticker) missed or
\* no cache is configured; a hit contributes the cached quote with no fetch
\* and no cache write; a successful fetch on a miss is written under that
\* same key with the time-to-live, and a failed fetch writes nothing.
C13_FetchIffCacheMiss ==
    /\ \A i \in 1..Len(quotes) :
        LET q == quotes[i]
        IN /\ Has(q.lookup) = hasCache
           /\ Has(q.lookup) => Val(q.lookup) = generate_key(<<"quote", q.ticker>>)
           /\ q.held => (hasCache /\ q.ticker \in cached)
           /\ q.hit = q.held
           /\ (q.fetch # "none") = ~q.held
           /\ q.hit =>
                /\ q.wrote = None
                /\ InSeq(q.ticker, Val(state.collected_data).market_data)
           /\ (q.fetch = "ok" /\ hasCache) =>
                /\ q.wrote = Some([key |-> Val(q.lookup), ttl |-> QuoteTtl])
                /\ q.ticker \in cached
           /\ (q.fetch = "fail" \/ ~hasCache) => q.wrote = None
           /\ (q.fetch = "fail") =>
                ~InSeq(q.ticker, Val(state.collected_data).market_data)
    /\ \A t \in cached : t \in {1} \/ \E q \in QuoteSteps : q.ticker = t /\ Has(q.wrote)

\* C13 witness: one market task met a cache hit and, for another ticker, a
\* miss whose successful fetch was written to the cache.
C13_Witness ==
    \E q1, q2 \in QuoteSteps :
        /\ q1.hit /\ q1.fetch = "none"
        /\ ~q2.hit /\ q2.fetch = "ok" /\ Has(q2.wrote)

\* ----------------------------------------------------------------- tools
\* BaseTool.max_retries, the attempts stop_after_attempt allows.
max_retries == 3

ToolNames == {"yahoo_finance", "news", "cvm"}

\* How one invocation of _execute can end: it returns, or it raises one of
\* these exception classes.
ExecuteEndings ==
    {"return", "ConnectionError", "TimeoutError", "ExternalAPIError", "ValueError"}

\* No workflow run is in progress while a component is followed on its own.
WorkflowIdle ==
    /\ entry = "none"
    /\ pc = "idle"
    /\ node = "router"
    /\ state = InitialState([mentions |-> {}, executive |-> FALSE])
    /\ visited = <<>>
    /\ route = "entry"
    /\ raisedBy = "none"
    /\ asked = NoPayload("none")
    /\ parsed = NotParsed
    /\ tasks = NoTasks
    /\ hasRetriever = FALSE
    /\ hasCache = FALSE
    /\ cached = {}
    /\ quotes = <<>>
    /\ result = NoResult

\* retry_if_exception_type((ConnectionError, TimeoutError)), with every
\* exception retried instead.
retry_if_any_exception(ending) == ending # "return"

\* retry_if_exception_type((ConnectionError, TimeoutError)).
retry_if_exception_type(ending) == ending \in {"ConnectionError", "TimeoutError"}

\* stop_after_attempt(self.max_retries).
stop_after_attempt(attempt_number) == attempt_number >= max_retries

\* What the retrying wrapper does after the invocations made so far:
\* "call" the operation (again), "return" its value, "reraise" its exception,
\* or raise "RetryError".
Retrying(made) ==
    IF made = <<>> THEN "call"
    ELSE LET last == made[Len(made)]
         IN IF last.ending = "return" THEN "return"
            ELSE IF ~retry_if_exception_type(last.ending) THEN "reraise"
            ELSE IF stop_after_attempt(Len(made)) THEN "RetryError"
            ELSE "call"

\* The text of the exception the given invocation raised.
ErrorOf(call) == <<call.ending, call.attempt>>

ToolResult(success, data, error, source) ==
    [kind |-> "result", success |-> success, data |-> data, error |-> error,
     source |-> source]

\* The except clauses of BaseTool.execute without the last one: an
\* exception that is neither RetryError nor ExternalAPIError leaves execute.
ExecuteResult_no_catch_all(name, made) ==
    LET last == made[Len(made)]
    IN CASE Retrying(made) = "return" ->
              ToolResult(TRUE, Some(last.attempt), None, name)
         [] Retrying(made) = "RetryError" ->
              ToolResult(FALSE, None,
                         Some(<<"Max retries exceeded: ", ErrorOf(last)>>), name)
         [] Retrying(made) = "reraise" /\ last.ending = "ExternalAPIError" ->
              ToolResult(FALSE, None, Some(<<ErrorOf(last)>>), name)
         [] OTHER ->
              [kind |-> "raised", success |-> FALSE, data |-> None,
               error |-> Some(<<ErrorOf(last)>>), source |-> name]

\* What BaseTool.execute hands its caller once the wrapper is through: the
\* value wrapped as a success, or the failure its except clauses build.
ExecuteResult(name, made) ==
    LET last == made[Len(made)]
    IN CASE Retrying(made) = "return" ->
              ToolResult(TRUE, Some(last.attempt), None, name)
         [] Retrying(made) = "RetryError" ->
              ToolResult(FALSE, None,
                         Some(<<"Max retries exceeded: ", ErrorOf(last)>>), name)
         [] Retrying(made) = "reraise" /\ last.ending = "ExternalAPIError" ->
              ToolResult(FALSE, None, Some(<<ErrorOf(last)>>), name)
         [] OTHER ->
              ToolResult(FALSE, None,
                         Some(<<"Unexpected error: ", ErrorOf(last)>>), name)

\* A caller calls execute on one of the tools.
InitTool ==
    /\ WorkflowIdle
    /\ ChunkerIdle /\ RetrieverIdle /\ FormatIdle /\ RestIdle
    /\ tool \in ToolNames
    /\ calls = <<>>
    /\ toolResult = None

\* The wrapper invokes the operation once more; it ends one of the ways in
\* endings.
_execute(endings) ==
    /\ tool # "none"
    /\ toolResult = None
    /\ Retrying(calls) = "call"
    /\ \E ending \in endings :
        calls' = Append(calls, [ending |-> ending, attempt |-> Len(calls) + 1])
    /\ UNCHANGED <<tool, toolResult>>
    /\ UNCHANGED <<workflowVars, chunkerVars, retrieverVars, formatVars, restVars>>

\* BaseTool.execute returns to its caller.
execute ==
    /\ tool # "none"
    /\ toolResult = None
    /\ Retrying(calls) # "call"
    /\ toolResult' = Some(ExecuteResult(tool, calls))
    /\ UNCHANGED <<tool, calls>>
    /\ UNCHANGED <<workflowVars, chunkerVars, retrieverVars, formatVars, restVars>>

NextTool ==
    \/ _execute(ExecuteEndings)
    \/ execute

\* One call of BaseTool.execute with every ending of every attempt.
SpecTool == InitTool /\ [][NextTool]_vars

Transient == {"ConnectionError", "TimeoutError"}

\* C11: the operation is invoked again only after a transient failure
\* (connection error or timeout) and at most max_retries times in all; a
\* non-transient failure is never followed by another invocation, so a call
\* whose first attempt fails that way invokes the operation exactly once.
C11_RetryOnlyTransient ==
    /\ Len(calls) <= max_retries
    /\ \A i \in 1..Len(calls) :
        /\ i < Len(calls) => calls[i].ending \in Transient
        /\ calls[i].ending \notin (Transient \cup {"return"}) => i = Len(calls)
    /\ (calls # <<>> /\ calls[1].ending \notin Transient) => Len(calls) = 1
    /\ Has(toolResult) =>
        \/ calls[Len(calls)].ending \notin Transient
        \/ Len(calls) = max_retries

\* C11 witness: a call that invoked the operation max_retries times, each
\* ending in a transient failure, and then returned.
C11_Witness ==
    /\ Has(toolResult)
    /\ Len(calls) = max_retries
    /\ \A i \in 1..Len(calls) : calls[i].ending \in Transient

\* C12: execute never raises: whatever the attempts did, the caller gets a
\* result object with a success flag; success is true only if an attempt
\* returned normally; on exhaustion the failure carries the error of the
\* last attempt.
C12_ExecuteNeverRaises ==
    Has(toolResult) =>
        LET r == Val(toolResult)
            last == calls[Len(calls)]
        IN /\ r.kind = "result"
           /\ r.success \in BOOLEAN
           /\ r.success = (last.ending = "return")
           /\ r.success => (r.data = Some(last.attempt) /\ r.error = None)
           /\ ~r.success => (r.data = None /\ Has(r.error))
           /\ (~r.success /\ last.ending \in Transient) =>
                /\ Len(calls) = max_retries
                /\ r.error = Some(<<"Max retries exceeded: ",
                                    <<last.ending, max_retries>>>>)

\* C12 witness: execute returned a failure for an exception that is
\* neither transient nor an ExternalAPIError.
C12_Witness ==
    /\ Has(toolResult)
    /\ calls[Len(calls)].ending = "ValueError"
    /\ ~Val(toolResult).success

\* --------------------------------------------------------------- chunker
\* A text is its paragraphs (separated by a blank line), each a sequence
\* of sentences (separated by one space), each sentence given by its number
\* of characters; padded says that the text has white space around it,
\* which normalisation removes.
MaxParas == 2
MaxSentences == 3
SentenceLengths == {45, 60}

\* settings.rag_chunk_size and settings.rag_chunk_overlap, scaled down.
_chunk_size == 100
_chunk_overlap == 50

\* The least stripped length of a chunk that chunk_document keeps.
MinChunkLength == 50

RECURSIVE Sum(_)
Sum(lengths) == IF lengths = <<>> THEN 0 ELSE Head(lengths) + Sum(Tail(lengths))

\* " ".join(sentences).
Join(sentences) == [paras |-> <<sentences>>, padded |-> FALSE]

\* len() of a paragraph and of a text.
ParaLen(sentences) ==
    IF sentences = <<>> THEN 0 ELSE Sum(sentences) + Len(sentences) - 1

RECURSIVE ParasLen(_)
ParasLen(paras) ==
    IF paras = <<>> THEN 0
    ELSE ParaLen(Head(paras))
         + (IF Len(paras) > 1 THEN 2 + ParasLen(Tail(paras)) ELSE 0)

TextLen(text) == ParasLen(text.paras) + (IF text.padded THEN 2 ELSE 0)

SeqsUpTo(S, n) == UNION {[1..k -> S] : k \in 0..n}

Paragraphs == SeqsUpTo(SentenceLengths, MaxSentences) \ {<<>>}

Documents == [paras : SeqsUpTo(Paragraphs, MaxParas), padded : BOOLEAN]

\* DocumentChunker._normalize_text: runs of blanks collapse and the text is
\* stripped.
_normalize_text(text) == [text EXCEPT !.padded = FALSE]

\* DocumentChunker._split_into_sections for a text without page markers:
\* one section per non-empty paragraph.
_split_into_sections(text) ==
    [i \in 1..Len(text.paras) |->
        [content |-> text.paras[i], page_number |-> None]]

\* The inner loop of _chunk_section that builds the overlap: sentences are
\* taken from the end of current_chunk while they fit in _chunk_overlap.
RECURSIVE overlap_sentences(_, _, _)
overlap_sentences(current_chunk, taken, overlap_length) ==
    IF current_chunk = <<>> THEN taken
    ELSE LET s == current_chunk[Len(current_chunk)]
         IN IF overlap_length + s > _chunk_overlap THEN taken
            ELSE overlap_sentences(SubSeq(current_chunk, 1, Len(current_chunk) - 1),
                                   <<s>> \o taken, overlap_length + s)

\* The sentence loop of _chunk_section.
RECURSIVE SentenceLoop(_, _, _, _)
SentenceLoop(sentences, done, current_chunk, current_length) ==
    IF sentences = <<>>
    THEN IF current_chunk # <<>> THEN Append(done, current_chunk) ELSE done
    ELSE LET sentence == Head(sentences)
             full == current_length + sentence > _chunk_size /\ current_chunk # <<>>
             kept == IF ~full THEN current_chunk
                     ELSE IF ParaLen(current_chunk) > _chunk_overlap
                     THEN overlap_sentences(current_chunk, <<>>, 0)
                     ELSE <<>>
             kept_length == IF ~full THEN current_length ELSE Sum(kept)
         IN SentenceLoop(Tail(sentences),
                         IF full THEN Append(done, current_chunk) ELSE done,
                         Append(kept, sentence), kept_length + sentence)

\* DocumentChunker._chunk_section: the texts of the chunks of one section.
_chunk_section(content) ==
    IF ParaLen(content) <= _chunk_size THEN <<content>>
    ELSE SentenceLoop(content, <<>>, <<>>, 0)

Chunk(content, chunk_index, table_index) ==
    [content |-> content, chunk_index |-> chunk_index, table_index |-> table_index]

\* The inner loop of chunk_document with the index advanced for every
\* chunk text, kept or not.
RECURSIVE SectionChunks_count_all(_, _)
SectionChunks_count_all(section_chunks, acc) ==
    IF section_chunks = <<>> THEN acc
    ELSE LET chunk_text == Head(section_chunks)
         IN SectionChunks_count_all(Tail(section_chunks),
                [chunks |-> IF ParaLen(chunk_text) < MinChunkLength THEN acc.chunks
                            ELSE Append(acc.chunks,
                                        Chunk(Join(chunk_text), acc.chunk_index, None)),
                 chunk_index |-> acc.chunk_index + 1])

\* The inner loop of chunk_document over the chunk texts of one section;
\* acc holds the list chunks and the counter chunk_index.
RECURSIVE SectionChunks(_, _)
SectionChunks(section_chunks, acc) ==
    IF section_chunks = <<>> THEN acc
    ELSE LET chunk_text == Head(section_chunks)
         IN SectionChunks(Tail(section_chunks),
                IF ParaLen(chunk_text) < MinChunkLength THEN acc
                ELSE [chunks |-> Append(acc.chunks,
                                        Chunk(Join(chunk_text), acc.chunk_index, None)),
                      chunk_index |-> acc.chunk_index + 1])

\* The outer loop of chunk_document over the sections.
RECURSIVE SectionLoop(_, _)
SectionLoop(sections, acc) ==
    IF sections = <<>> THEN acc
    ELSE SectionLoop(Tail(sections),
                     SectionChunks(_chunk_section(Head(sections).content), acc))

\* DocumentChunker.chunk_document.
ChunkDocument(text) ==
    IF text.paras = <<>> THEN <<>>
    ELSE SectionLoop(_split_into_sections(_normalize_text(text)),
                     [chunks |-> <<>>, chunk_index |-> 0]).chunks

\* A table as the document processor hands it over: markdown text, rows
\* of cells, or neither; a length of 0 is the empty string, 0 rows the
\* empty list.
TableSamples ==
    {[markdown |-> Some(60), data |-> None], [markdown |-> Some(0), data |-> None],
     [markdown |-> None, data |-> Some(2)], [markdown |-> None, data |-> Some(0)],
     [markdown |-> None, data |-> None]}

MaxTables == 2

TableLists == SeqsUpTo(TableSamples, MaxTables)

EmptyText == [paras |-> <<>>, padded |-> FALSE]

\* DocumentChunker._format_table; a row is taken as 9 characters, and rows
\* are joined by a line break.
_format_table(table) ==
    IF Has(table.markdown)
    THEN IF Val(table.markdown) = 0 THEN EmptyText
         ELSE Join(<<Val(table.markdown)>>)
    ELSE IF Has(table.data)
    THEN IF Val(table.data) = 0 THEN EmptyText
         ELSE Join(<<10 * Val(table.data) - 1>>)
    ELSE EmptyText

\* The loop of chunk_with_tables over enumerate(tables), from table i on.
RECURSIVE TableLoop(_, _, _)
TableLoop(table_list, i, made) ==
    IF i > Len(table_list) THEN made
    ELSE LET table_content == _format_table(table_list[i])
         IN TableLoop(table_list, i + 1,
                IF table_content = EmptyText THEN made
                ELSE Append(made, Chunk(table_content, Len(made) + (i - 1),
                                        Some(i - 1))))

\* DocumentChunker.chunk_with_tables.
ChunkWithTables(text, table_list) == TableLoop(table_list, 1, ChunkDocument(text))

\* A caller hands a document to the chunker.
InitChunk ==
    /\ WorkflowIdle
    /\ ToolIdle /\ RetrieverIdle /\ FormatIdle /\ RestIdle
    /\ document \in Documents
    /\ tables = <<>>
    /\ chunks = None

\* DocumentChunker.chunk_document returns.
chunk_document ==
    /\ chunks = None
    /\ chunks' = Some(ChunkDocument(document))
    /\ UNCHANGED <<document, tables>>
    /\ UNCHANGED <<workflowVars, toolVars, retrieverVars, formatVars, restVars>>

\* DocumentChunker.chunk_with_tables returns.
chunk_with_tables(lists) ==
    /\ chunks = None
    /\ \E table_list \in lists :
        /\ tables' = table_list
        /\ chunks' = Some(ChunkWithTables(document, table_list))
    /\ UNCHANGED document
    /\ UNCHANGED <<workflowVars, toolVars, retrieverVars, formatVars, restVars>>

NextChunk == chunk_document

\* chunk_document on every document of the bounds.
SpecChunk == InitChunk /\ [][NextChunk]_vars

InitTables == InitChunk /\ ~document.padded

NextTables == chunk_with_tables(TableLists)

\* chunk_with_tables on every document and every list of tables.
SpecTables == InitTables /\ [][NextTables]_vars

Indices(list) == [i \in 1..Len(list) |-> list[i].chunk_index]

Range0(n) == [i \in 1..n |-> i - 1]

\* The chunk texts of the document before the minimum-length filter.
RECURSIVE Unfiltered(_)
Unfiltered(sections) ==
    IF sections = <<>> THEN <<>>
    ELSE _chunk_section(Head(sections).content) \o Unfiltered(Tail(sections))

Survivors(text) ==
    SelectSeq(Unfiltered(_split_into_sections(_normalize_text(text))),
              LAMBDA c : ParaLen(c) >= MinChunkLength)

\* C14: the chunks chunk_document returns carry the indices 0, 1, ..., n-1
\* in output order, with no gap and no repeat, where n counts only the
\* chunks that survive the minimum-length filter.
C14_IndicesContiguous ==
    Has(chunks) =>
        LET list == Val(chunks)
        IN /\ Indices(list) = Range0(Len(list))
           /\ Len(list) = Len(Survivors(document))
           /\ \A i \in 1..Len(list) : list[i].content = Join(Survivors(document)[i])

\* C14 witness: a document of which a chunk text was filtered out before
\* a later one was kept, and at least two chunks were returned.
C14_Witness ==
    /\ Has(chunks)
    /\ Len(Val(chunks)) >= 2
    /\ LET all == Unfiltered(_split_into_sections(_normalize_text(document)))
       IN \E i, j \in 1..Len(all) :
            i < j /\ ParaLen(all[i]) < MinChunkLength /\ ParaLen(all[j]) >= MinChunkLength

\* C15: chunk_with_tables gives the appended table chunks the indices n,
\* n+1, n+2, ... after the n chunks of the main sequence, so that the
\* indices of the whole result are 0..m-1.
C15_TableIndicesContinue ==
    Has(chunks) => Indices(Val(chunks)) = Range0(Len(Val(chunks)))

\* C16: for a non-empty text shorter than the chunk size chunk_document
\* returns exactly one chunk, with index 0, whose content is the text
\* verbatim.
C16_ShortTextOneChunk ==
    (Has(chunks) /\ TextLen(document) > 0 /\ TextLen(document) < _chunk_size) =>
        /\ Len(Val(chunks)) = 1
        /\ Val(chunks)[1].chunk_index = 0
        /\ Val(chunks)[1].content = document

\* -------------------------------------------------- RAGRetriever.format_context
MaxContextChunks == 3

\* The token budgets tried.
Budgets == {0, 5, 10, 25}

\* A chunk of a context to format: the number of characters of its content
\* and of the joined metadata parts (0 when the chunk has none of the three
\* metadata fields).
ContextChunks == [content : {9, 13, 30}, meta : {0, 14}]

char_per_token == 4

\* The number of digits of a source number below 100.
Digits(n) == IF n < 10 THEN 1 ELSE 2

\* len(chunk_text) for chunk number i (from 1): "[Fonte i]", a line break,
\* the content and a line break; with metadata " - " and the parts are
\* added inside the brackets.
ChunkTextLen(i, chunk) ==
    7 + Digits(i) + (IF chunk.meta > 0 THEN 3 + chunk.meta ELSE 0) + 1 + 1
    + chunk.content + 1

\* The loop of format_context from chunk i on: the lengths of the parts it
\* appends before the budget stops it.
RECURSIVE context_parts(_, _, _, _)
context_parts(context, i, current_length, budget) ==
    IF i > Len(context) THEN <<>>
    ELSE LET chunk_tokens == ChunkTextLen(i, context[i]) \div char_per_token
         IN IF current_length + chunk_tokens > budget THEN <<>>
            ELSE <<ChunkTextLen(i, context[i])>>
                 \o context_parts(context, i + 1, current_length + chunk_tokens,
                                  budget)

\* RAGRetriever.format_context: the parts of the text it returns, which it
\* joins with the separator.
FormatContext(context, budget) ==
    IF context = <<>> THEN <<>> ELSE context_parts(context, 1, 0, budget)

\* The number of characters of "\n---\n".
SeparatorLen == 5

\* len("\n---\n".join(parts)).
JoinedLen(parts) ==
    IF parts = <<>> THEN 0 ELSE Sum(parts) + SeparatorLen * (Len(parts) - 1)

InitFormat ==
    /\ WorkflowIdle
    /\ ToolIdle /\ ChunkerIdle /\ RetrieverIdle /\ RestIdle
    /\ rag_context \in SeqsUpTo(ContextChunks, MaxContextChunks)
    /\ max_tokens \in Budgets
    /\ formatted = None

\* RAGRetriever.format_context returns.
format_context ==
    /\ formatted = None
    /\ formatted' = Some(FormatContext(rag_context, max_tokens))
    /\ UNCHANGED <<rag_context, max_tokens>>
    /\ UNCHANGED <<workflowVars, toolVars, chunkerVars, retrieverVars, restVars>>

NextFormat == format_context

\* format_context on every context and budget of the bounds.
SpecFormat == InitFormat /\ [][NextFormat]_vars

\* C17: the text format_context returns has an estimated token cost, its
\* number of characters divided by 4, that does not exceed the budget,
\* separators included.
C17_WithinTokenBudget ==
    Has(formatted) =>
        JoinedLen(Val(formatted)) \div char_per_token <= max_tokens

\* -------------------------------------------------- RAGRetriever.hybrid_search
\* The vector index holds up to MaxStored chunks for the query, best score
\* first. The first VariedChunks of them vary in score and content; the
\* others share the lowest score and contain no keyword. Scores are in
\* hundredths.
MaxStored == 11
VariedChunks == 3
MaxTopK == 11
MaxSearches == 2

Words == {"lucro", "divida"}
KeywordLists == {<<>>, <<"lucro">>, <<"lucro", "divida">>}
Contents == {{}, {"lucro"}, {"lucro", "divida"}}
Scores == {50, 60, 70}
LowScore == CHOOSE x \in Scores : \A y \in Scores : x <= y
ScoreLevels == Scores \ {LowScore}

\* settings.rag_top_k, used when the caller gives no top_k (written 0).
rag_top_k == 10
TopKs == {0, 2, MaxTopK}

\* The number of scores retrieve keeps in search_metadata["scores"].
ScoresKept == 10

\* The weight of the keyword ratio in the blended score, in hundredths.
BoostWeight == 20

Min(a, b) == IF a < b THEN a ELSE b

StoredChunk(i, content, score) ==
    [chunk |-> [chunk_id |-> i, content |-> content], score |-> score]

Stores ==
    UNION {
        {[i \in 1..n |->
            IF i <= VariedChunks
            THEN StoredChunk(i, contents[i], scores[i])
            ELSE StoredChunk(i, {}, LowScore)] :
         contents \in [1..Min(n, VariedChunks) -> Contents],
         scores \in {f \in [1..Min(n, VariedChunks) -> ScoreLevels] :
                        \A j \in 1..(Min(n, VariedChunks) - 1) : f[j] >= f[j + 1]}} :
        n \in 0..MaxStored}

\* VectorStoreService.search: the best limit chunks with their scores.
search(stored, limit) == SubSeq(stored, 1, Min(limit, Len(stored)))

\* RAGRetriever.retrieve without a Cohere client: the chunks in the order
\* of the index, and at most ScoresKept of their scores in the metadata.
retrieve(stored, k, rerank) ==
    LET results == search(stored, IF rerank THEN k * 2 ELSE k)
    IN IF results = <<>>
       THEN [kind |-> "context", chunks |-> <<>>, total_chunks_found |-> 0,
             scores |-> None, keyword_boosted |-> FALSE]
       ELSE [kind |-> "context",
             chunks |-> [i \in 1..Len(results) |-> results[i].chunk],
             total_chunks_found |-> Len(results),
             scores |-> Some([i \in 1..Min(Len(results), ScoresKept) |->
                                results[i].score]),
             keyword_boosted |-> FALSE]

\* The number of keywords of the list found in the content.
RECURSIVE matches(_, _)
matches(content, kws) ==
    IF kws = <<>> THEN 0
    ELSE (IF Head(kws) \in content THEN 1 ELSE 0) + matches(content, Tail(kws))

\* RAGRetriever._calculate_keyword_boost: the boost of each chunk id that
\* has one, as the number of matches (the ratio times len(keywords)).
_calculate_keyword_boost(chunk_list, kws) ==
    LET ids == {chunk_list[i].chunk_id : i \in 1..Len(chunk_list)}
        hit == {id \in ids : \E i \in 1..Len(chunk_list) :
                    chunk_list[i].chunk_id = id /\ matches(chunk_list[i].content, kws) > 0}
    IN [id \in hit |->
          matches((CHOOSE c \in {chunk_list[i] : i \in 1..Len(chunk_list)} :
                      c.chunk_id = id).content, kws)]

\* list.index(x): the first position that holds a value equal to x.
IndexOf(list, x) == CHOOSE i \in 1..Len(list) : list[i] = x /\ \A j \in 1..(i - 1) : list[j] # x

\* One step of the sort: x goes after the elements whose score is at
\* least its own.
RECURSIVE InsertAfterTies(_, _)
InsertAfterTies(x, sorted) ==
    IF sorted = <<>> THEN <<x>>
    ELSE IF Head(sorted).score >= x.score
    THEN <<Head(sorted)>> \o InsertAfterTies(x, Tail(sorted))
    ELSE <<x>> \o sorted

\* x goes before the elements whose score is at most its own.
RECURSIVE InsertBeforeTies(_, _)
InsertBeforeTies(x, sorted) ==
    IF sorted = <<>> THEN <<x>>
    ELSE IF Head(sorted).score > x.score
    THEN <<Head(sorted)>> \o InsertBeforeTies(x, Tail(sorted))
    ELSE <<x>> \o sorted

RECURSIVE StableSort(_, _)
StableSort(pairs, sorted) ==
    IF pairs = <<>> THEN sorted
    ELSE StableSort(Tail(pairs), InsertAfterTies(Head(pairs), sorted))

RECURSIVE TiesReversedSort(_, _)
TiesReversedSort(pairs, sorted) ==
    IF pairs = <<>> THEN sorted
    ELSE TiesReversedSort(Tail(pairs), InsertBeforeTies(Head(pairs), sorted))

\* A descending sort that may leave equal scores in either order.
sort_reverse_unstable(pairs) ==
    {StableSort(pairs, <<>>), TiesReversedSort(pairs, <<>>)}

\* boosted_chunks.sort(key=score, reverse=True): the orders the sort may
\* leave. list.sort is stable, so there is one: descending by score, equal
\* scores in their order of arrival.
sort_reverse(pairs) == {StableSort(pairs, <<>>)}

RaisedIndexError ==
    [kind |-> "raised", chunks |-> <<>>, total_chunks_found |-> 0,
     scores |-> None, keyword_boosted |-> FALSE]

\* RAGRetriever.hybrid_search: what a call may return. Blended scores are
\* kept times len(keywords), which leaves their order as it is.
HybridSearch(stored, kws, k) ==
    LET semantic_results ==
            retrieve(stored, IF k = 0 THEN rag_top_k ELSE k, FALSE)
        chunk_list == semantic_results.chunks
        scores == IF Has(semantic_results.scores)
                  THEN Val(semantic_results.scores) ELSE <<0>>
        keyword_boost == _calculate_keyword_boost(chunk_list, kws)
        boost(chunk) == IF chunk.chunk_id \in DOMAIN keyword_boost
                        THEN keyword_boost[chunk.chunk_id] ELSE 0
    IN IF kws = <<>> THEN {semantic_results}
       ELSE IF \E i \in 1..Len(chunk_list) :
                    IndexOf(chunk_list, chunk_list[i]) > Len(scores)
       THEN {RaisedIndexError}
       ELSE LET boosted_chunks ==
                    [i \in 1..Len(chunk_list) |->
                        [chunk |-> chunk_list[i],
                         score |-> scores[IndexOf(chunk_list, chunk_list[i])] * Len(kws)
                                   + boost(chunk_list[i]) * BoostWeight]]
            IN {[semantic_results EXCEPT
                    !.chunks = [i \in 1..Len(ordered) |-> ordered[i].chunk],
                    !.keyword_boosted = TRUE] :
                ordered \in sort_reverse(boosted_chunks)}

\* A state of the index and the arguments of the calls to come.
InitSearch ==
    /\ WorkflowIdle
    /\ ToolIdle /\ ChunkerIdle /\ FormatIdle /\ RestIdle
    /\ store \in Stores
    /\ keywords \in KeywordLists
    /\ top_k \in TopKs
    /\ searches = <<>>

\* One call of hybrid_search with the same arguments on the same index.
hybrid_search ==
    /\ Len(searches) < MaxSearches
    /\ \E found \in HybridSearch(store, keywords, top_k) :
        searches' = Append(searches, found)
    /\ UNCHANGED <<store, keywords, top_k>>
    /\ UNCHANGED <<workflowVars, toolVars, chunkerVars, formatVars, restVars>>

NextSearch == hybrid_search

\* Repeated calls of hybrid_search on every index of the bounds.
SpecSearch == InitSearch /\ [][NextSearch]_vars

\* vectorScore + 0.2 x keywordRatio of a chunk, times len(keywords), with
\* the score the index holds for that chunk.
Blended(chunk) ==
    LET held == CHOOSE e \in {store[i] : i \in 1..Len(store)} :
                    e.chunk.chunk_id = chunk.chunk_id
    IN held.score * Len(keywords) + matches(chunk.content, keywords) * BoostWeight

\* What retrieval with re-ranking disabled returns for the arguments.
Retrieved == retrieve(store, IF top_k = 0 THEN rag_top_k ELSE top_k, FALSE).chunks

\* C18: with a non-empty keyword list hybrid_search returns exactly the
\* chunks of the retrieval run with re-ranking disabled, each once, ordered
\* by vectorScore + 0.2 x keywordRatio descending, with each chunk's own
\* vector score, for any number of retrieved chunks and any top_k.
C18_HybridOrder ==
    \A n \in 1..Len(searches) :
        keywords # <<>> =>
            LET r == searches[n]
            IN /\ r.kind = "context"
               /\ Len(r.chunks) = Len(Retrieved)
               /\ \A i \in 1..Len(Retrieved) :
                    \E j \in 1..Len(r.chunks) : r.chunks[j] = Retrieved[i]
               /\ \A i \in 1..(Len(r.chunks) - 1) :
                    Blended(r.chunks[i]) >= Blended(r.chunks[i + 1])

NoDuplicates(list) ==
    \A i, j \in 1..Len(list) : list[i] = list[j] => i = j

IsPrefix(short, long) ==
    Len(short) <= Len(long) /\ SubSeq(long, 1, Len(short)) = short

\* C20: in every reachable state the completed-stage list holds no name
\* twice, and across every stage transition the previous list is a prefix
\* of the new one, also when analyze and report run again in the retry loop.
C20_CompletedAppendOnly ==
    /\ [](NoDuplicates(state.completed_agents))
    /\ [][IsPrefix(state.completed_agents, state'.completed_agents)]_vars

\* C20 witness: the retry loop ran analyze and report a second time and
\* all five stages are recorded.
C20_Witness ==
    /\ Len(visited) > Len(state.completed_agents)
    /\ Len(state.completed_agents) = 5
    /\ Len(SelectSeq(visited, LAMBDA n : n = "reporter")) >= 2

\* ------------------------------------------------------------ error list
\* The stage whose execution a step of the graph is.
Executed == Last(visited')

\* A step in which a stage recorded a failure: the previous error list is
\* a prefix of the new one, which has one entry more, {stage, text, kind},
\* naming the stage that ran.
RecordsOneEntry ==
    /\ IsPrefix(state.errors, state'.errors)
    /\ state'.errors # state.errors =>
        /\ Len(state'.errors) = Len(state.errors) + 1
        /\ visited' # visited
        /\ DOMAIN Last(state'.errors) = {"agent", "error", "type"}
        /\ Last(state'.errors).agent = Executed
        /\ raisedBy' = "none"

\* C21 as stated: across every stage transition the previous error list is
\* a prefix of the new one, each failure a stage records is one appended
\* entry {stage name, error text, error kind} naming the stage, and the run
\* then continues to a stage: it does not halt.
C21_ErrorsGrowRunContinues ==
    [][/\ RecordsOneEntry
       /\ state'.errors # state.errors => node' \in Nodes]_vars

\* C21 as amended: the same, except that a failure recorded by report which
\* brings the error count above the ceiling of 5 ends the run in errorDone;
\* every other recorded failure is followed by a stage.
C21_ErrorsGrowRunContinuesBelowCeiling ==
    [][/\ RecordsOneEntry
       /\ state'.errors # state.errors =>
            IF Executed = "reporter" /\ Len(state'.errors) > ErrorCeiling
            THEN node' = "END" /\ route' = "error"
            ELSE node' \in Nodes]_vars

\* C21 witness: retrieval recorded a failure and the run went on; report
\* recorded failures until the count passed the ceiling and the run ended.
C21_Witness ==
    /\ Len(state.errors) > ErrorCeiling
    /\ state.errors[1].agent = "rag"
    /\ Last(state.errors).agent = "reporter"
    /\ InSeq("analyst", state.completed_agents)
    /\ node = "END" /\ route = "error"

\* ------------------------------------------------------------ retry loop
\* The positions of visited at which report was followed by analyze.
Retries ==
    {i \in 1..(Len(visited) - 1) :
        visited[i] = "reporter" /\ visited[i + 1] = "analyst"}

Times(n) == Len(SelectSeq(visited, LAMBDA v : v = n))

\* C22: in any run the retry transition from report back to analyze is
\* taken at most once: after a retried analyze and report the run ends in
\* done or errorDone.
C22_RetryAtMostOnce ==
    /\ Cardinality(Retries) <= 1
    /\ (Times("reporter") >= 2 /\ Last(visited) = "reporter")
          => (node = "END" /\ route \in {"complete", "error"})

\* ------------------------------------------------- stage records itself
\* C23: every stage that executes returns a state whose completed-stage
\* list contains the stage's own name, on success and on internal failure
\* alike, with or without a retriever configured.  (A stage that raises
\* returns no state; that case is left to C3.)
C23_StageRecordsItself ==
    (visited # <<>> /\ raisedBy = "none")
        => InSeq(Last(visited), state.completed_agents)

\* --------------------------------------------------- records by reference
\* Python hands a state to a stage by reference: the dict and the lists in
\* it are objects that a callee could change.  An object is an entry of the
\* heap and its id is its index; a state dict holds the ids of its
\* completed-stage list, its error list and its CollectedData (0 for none).
MaxCalls == 3

\* The agents whose calls are followed.
Callers == {"collector", "reporter"}

ListObject(items) == [kind |-> "list", items |-> items]
Allocate(h, object) == Append(h, object)
NewId(h) == Len(h) + 1

\* The initial_state run() builds: "errors": [] and "completed_agents": [].
InitialHeap ==
    <<ListObject(<<>>), ListObject(<<>>),
      [kind |-> "dict", collected_data |-> 0, response |-> "none",
       errors |-> 1, current_agent |-> "none", completed_agents |-> 2]>>
InitialId == Len(InitialHeap)

\* An update_state that appends to the list object the argument holds.
UpdateStateOnHeap_shared_list(h, name, sid, updates) ==
    LET new_state == NewId(h)
        h1 == Allocate(h, updates @@ h[sid])
        h2 == [h1 EXCEPT ![new_state].current_agent = name]
        completed == h2[new_state].completed_agents
        h4 == IF InSeq(name, h2[completed].items) THEN h2
              ELSE [h2 EXCEPT ![completed].items = Append(@, name)]
    IN  [heap |-> Allocate(h4, h4[new_state]), result |-> NewId(h4)]

\* BaseAgent.update_state on the heap: dict(state) is a new dict with the
\* same values, list(...) a new list with the same items, and
\* AgentState(**new_state) a new dict again.
UpdateStateOnHeap(h, name, sid, updates) ==
    LET new_state == NewId(h)
        h1 == Allocate(h, updates @@ h[sid])
        h2 == [h1 EXCEPT ![new_state].current_agent = name]
        completed == NewId(h2)
        h3 == Allocate(h2, ListObject(h2[h2[new_state].completed_agents].items))
        h4 == IF InSeq(name, h3[completed].items) THEN h3
              ELSE [h3 EXCEPT ![completed].items = Append(@, name)]
        h5 == [h4 EXCEPT ![new_state].completed_agents = completed]
    IN  [heap |-> Allocate(h5, h5[new_state]), result |-> NewId(h5)]

\* BaseAgent.add_error on the heap: list(state.get("errors", [])) is a new
\* list, the entry is appended to it.
AddErrorOnHeap(h, name, sid, error) ==
    LET errors == NewId(h)
        h1 == Allocate(h, ListObject(h[h[sid].errors].items))
        h2 == [h1 EXCEPT ![errors].items =
                    Append(@, [agent |-> name, error |-> error.text,
                               type |-> error.type])]
    IN  UpdateStateOnHeap(h2, name, sid, [errors |-> errors])

\* An agent's execute on the heap.  CollectorAgent.execute builds a
\* CollectedData of its own and appends to that; ReporterAgent.execute
\* hands a new response to update_state; each ends in add_error when it
\* fails.
ExecuteOnHeap(h, name, sid, failed) ==
    IF failed
    THEN AddErrorOnHeap(h, name, sid, Exc("Exception", "failed"))
    ELSE IF name = "collector"
    THEN LET collected_data == NewId(h)
             h1 == Allocate(h, [kind |-> "data", sources |-> <<>>])
             h2 == [h1 EXCEPT ![collected_data].sources =
                        Append(@, "yahoo_finance")]
         IN  UpdateStateOnHeap(h2, name, sid,
                               [collected_data |-> collected_data])
    ELSE UpdateStateOnHeap(h, name, sid, [response |-> "set"])

\* What a state holds, the lists and the CollectedData by their contents.
Snapshot(h, sid) ==
    [h[sid] EXCEPT
        !.errors = h[@].items,
        !.completed_agents = h[@].items,
        !.collected_data = IF @ = 0 THEN None ELSE Some(h[@].sources)]

\* The states a caller holds: the initial one and every one returned.
Held == {InitialId} \cup {history[i].result : i \in 1..Len(history)}

InitRecord ==
    /\ WorkflowIdle
    /\ ToolIdle /\ ChunkerIdle /\ RetrieverIdle /\ FormatIdle
    /\ GatherIdle /\ LimiterIdle
    /\ heap = InitialHeap
    /\ history = <<>>

\* A call with the state sid that returns r.
Called(op, sid, r) ==
    /\ Len(history) < MaxCalls
    /\ heap' = r.heap
    /\ history' = Append(history,
                         [op |-> op, argument |-> sid, result |-> r.result,
                          record |-> heap[sid], before |-> Snapshot(heap, sid)])
    /\ UNCHANGED <<workflowVars, toolVars, chunkerVars, retrieverVars, formatVars>>
    /\ UNCHANGED <<gatherVars, limiterVars>>

update_state_call ==
    \E name \in Callers, sid \in Held :
        Called("update_state", sid,
               UpdateStateOnHeap(heap, name, sid, [response |-> "set"]))

add_error_call ==
    \E name \in Callers, sid \in Held :
        Called("add_error", sid,
               AddErrorOnHeap(heap, name, sid, Exc("ValueError", "Query required")))

execute_call ==
    \E name \in Callers, sid \in Held, failed \in BOOLEAN :
        Called("execute", sid, ExecuteOnHeap(heap, name, sid, failed))

NextRecord == update_state_call \/ add_error_call \/ execute_call

SpecRecord == InitRecord /\ [][NextRecord]_vars

\* C24: a stage never modifies the state record it receives: after
\* update_state, add_error or an execute has returned, the argument is the
\* record it was, its completed-stage list, its error list and its
\* CollectedData hold what they held before the call, and the result is
\* another record than the argument.
C24_ArgumentUnmodified ==
    \A i \in 1..Len(history) :
        LET call == history[i]
        IN  /\ heap[call.argument] = call.record
            /\ Snapshot(heap, call.argument) = call.before
            /\ call.result # call.argument

\* C24 witness: a state that already held a completed stage and an error
\* was handed to two calls; the result of one holds a longer completed-stage
\* list, the result of the other a longer error list.
C24_Witness ==
    \E i \in 1..Len(history) :
        LET call == history[i]
            after == Snapshot(heap, call.result)
        IN  /\ call.before.completed_agents # <<>>
            /\ call.before.errors # <<>>
            /\ Len(after.completed_agents) > Len(call.before.completed_agents)
            /\ \E j \in 1..Len(history) :
                    /\ j # i
                    /\ history[j].argument = call.argument
                    /\ Len(Snapshot(heap, history[j].result).errors)
                            > Len(call.before.errors)

\* ------------------------------------------------- the collector's join
\* The Intents handed to the collector: any ticker list, any pair of the
\* market and news flags.
GatherIntents ==
    {[DefaultIntent(tickers) EXCEPT !.requires_market_data = market,
                                    !.requires_news = news] :
        tickers \in SUBSET Tickers, market \in BOOLEAN, news \in BOOLEAN}

\* Results handed out as the sub-tasks complete (asyncio.as_completed).
gather_as_completed(awaitables, completion) == completion

\* asyncio.gather(*tasks, return_exceptions=True): the results come in the
\* order of the awaitables passed, whatever the order of completion.
gather(awaitables, completion) == awaitables

\* The result each sub-task has when it returns.
TaskResults(intent, out) ==
    LET tickers == SetToSeq(intent.tickers)
    IN  [market |-> _collect_market_data(tickers, FALSE, {}, out.quote),
         news   |-> _collect_news(tickers, out.news),
         cvm    |-> _collect_cvm_info(tickers, out.filings)]

InitGather ==
    /\ WorkflowIdle
    /\ ToolIdle /\ ChunkerIdle /\ RetrieverIdle /\ FormatIdle
    /\ RecordIdle /\ LimiterIdle
    /\ \E intent \in GatherIntents : wanted = Some(intent)
    /\ \E out \in CollectorOutcomes : fetched = Some(out)
    /\ finished = <<>>
    /\ collected = None

\* A dispatched sub-task completes; the sub-tasks run concurrently, so any
\* of those still running may be the next to complete.
sub_task_completes ==
    /\ collected = None
    /\ \E task \in TaskNames :
        /\ InSeq(task, DispatchedTasks(Val(wanted)))
        /\ ~InSeq(task, finished)
        /\ finished' = Append(finished, task)
    /\ UNCHANGED <<wanted, fetched, collected>>
    /\ UNCHANGED <<workflowVars, toolVars, chunkerVars, retrieverVars, formatVars>>
    /\ UNCHANGED <<recordVars, limiterVars>>

\* "await asyncio.gather" returns when every sub-task has completed; the
\* loop then merges the results in the order gather gives them.
gather_returns ==
    /\ collected = None
    /\ Len(finished) = Len(DispatchedTasks(Val(wanted)))
    /\ LET dispatched == DispatchedTasks(Val(wanted))
           results == gather(dispatched, finished)
           raises == {Val(fetched).raises} \cap TaskNames
       IN  collected' = Some(MergeResults(results, TaskResults(Val(wanted), Val(fetched)),
                                          raises, EmptyCollectedData))
    /\ UNCHANGED <<wanted, fetched, finished>>
    /\ UNCHANGED <<workflowVars, toolVars, chunkerVars, retrieverVars, formatVars>>
    /\ UNCHANGED <<recordVars, limiterVars>>

NextGather == sub_task_completes \/ gather_returns

SpecGather == InitGather /\ [][NextGather]_vars

\* What the merge gives when the sub-tasks complete in the given order.
MergedInOrder(order) ==
    MergeResults(order, TaskResults(Val(wanted), Val(fetched)),
                 {Val(fetched).raises} \cap TaskNames, EmptyCollectedData)

\* C25: for fixed sub-task results the CollectedData (quotes, news items,
\* raw blobs, source names) is the same for every order in which the
\* sub-tasks complete: it is what the order of dispatch gives; and it is
\* built only when all dispatched sub-tasks have completed, with a
\* contribution from each that returned a result.
C25_SameForEveryCompletionOrder ==
    Has(collected) =>
        LET dispatched == DispatchedTasks(Val(wanted))
        IN  /\ \A task \in TaskNames : InSeq(task, dispatched) <=> InSeq(task, finished)
            /\ Val(collected) = MergedInOrder(dispatched)
            /\ \A task \in TaskNames :
                 (InSeq(task, dispatched) /\ task # Val(fetched).raises)
                    <=> InSeq(SourceName(task), Val(collected).sources)

\* C25 witness: three sub-tasks completed in the reverse of the order of
\* dispatch, each with a result, and the CollectedData lists the three
\* sources in the order of dispatch.
C25_Witness ==
    /\ Has(collected)
    /\ finished = <<"cvm", "news", "market">>
    /\ Val(collected).sources = <<"yahoo_finance", "news", "cvm">>
    /\ Val(collected).market_data # <<>>
    /\ Val(collected).news_items # <<>>

\* ------------------------------------------------------ order of stages
\* The stages an Intent fixes, up to the first analyze.
ExpectedPath(intent) ==
    <<"router">>
    \o (IF intent.requires_market_data \/ intent.tickers # {}
        THEN <<"collector">> ELSE <<>>)
    \o (IF intent.requires_rag THEN <<"rag">> ELSE <<>>)
    \o <<"analyst">>

\* C26 as stated: two runs whose classify stage yields the same Intent
\* execute the same sequence of stages whatever the later stages' outcomes;
\* that is, the sequence of a finished run is the one its Intent fixes:
\* the path to analyze, then report.
C26_StagesFixedByIntent ==
    (GraphOver /\ visited # <<>>)
        => visited = ExpectedPath(Intent) \o <<"reporter">>

\* C26 as amended: the stages run, in order, are those the Intent fixes up
\* to and including the first analyze, whatever the outcomes of collect
\* and retrieve; after it report and analyze alternate, as often as the
\* outcomes of analyze and report make them.
C26_StagesFixedUpToAnalyze ==
    visited # <<>> =>
        LET path == ExpectedPath(Intent)
            n == Len(path)
            shared == Min(n, Len(visited))
        IN  /\ SubSeq(visited, 1, shared) = SubSeq(path, 1, shared)
            /\ \A i \in (n + 1)..Len(visited) :
                    visited[i] = IF (i - n) % 2 = 1 THEN "reporter"
                                 ELSE "analyst"

\* C26 witness: a run through collect and retrieve that ended in done only
\* after analyze and report had run again.
C26_Witness ==
    /\ node = "END" /\ route = "complete"
    /\ InSeq("collector", visited) /\ InSeq("rag", visited)
    /\ Len(visited) > Len(ExpectedPath(Intent)) + 1

\* --------------------------------------------------- graph description
\* FinancialResearchWorkflow.get_graph_visualization: the "edges" list, as
\* pairs <<from, to>>.
get_graph_visualization ==
    {<<"router", "collector">>, <<"router", "rag">>, <<"router", "analyst">>,
     <<"collector", "rag">>, <<"collector", "analyst">>,
     <<"rag", "analyst">>, <<"analyst", "reporter">>, <<"reporter", "END">>}

\* The transitions between stages the run has taken so far.
Taken ==
    {<<visited[i], visited[i + 1]>> : i \in 1..(Len(visited) - 1)}
    \cup (IF visited # <<>> /\ node = "END"
          THEN {<<Last(visited), "END">>} ELSE {})

\* C27: the edge list of get_graph_visualization describes the machine:
\* every transition between stages that a run takes is an edge of the list.
\* (That every listed edge can be taken is a reachability statement, one
\* for each edge.)
C27_VisualizationHasEveryTransition ==
    Taken \subseteq get_graph_visualization

\* ----------------------------------------------------- size of a window
\* C28: every window _chunk_section emits that holds two or more sentences
\* has a total sentence length of at most the chunk size, windows seeded
\* with overlap from the previous window included; only a window of one
\* over-long sentence may exceed it.  (A section no longer than the chunk
\* size is returned whole and is within the size as it is.)
C28_WindowWithinChunkSize ==
    Has(chunks) =>
        \A i \in 1..Len(Val(chunks)) :
            LET window == Val(chunks)[i].content.paras[1]
            IN  Len(window) >= 2 => Sum(window) <= _chunk_size

\* ------------------------------------------------- report after a failure
\* The analyze stage failed: it recorded an error and the state holds no
\* analysis.
AnalyzeFailed ==
    /\ ~Has(state.analysis)
    /\ \E i \in 1..Len(state.errors) : state.errors[i].agent = "analyst"

\* C29: if the analyze stage fails, the following report stage produces the
\* non-empty fallback response, whatever the generation call would do (it
\* is not called, so it can neither fail nor supply the text), and the run
\* ends in done with analyze executed once and no retry.
C29_FallbackAfterFailedAnalysis ==
    AnalyzeFailed =>
        /\ Times("analyst") = 1
        /\ Retries = {}
        /\ Last(visited) = "analyst" => node = "reporter"
        /\ Last(visited) = "reporter" =>
            /\ Has(state.response)
            /\ Val(state.response).content = _generate_fallback_response(state)
            /\ Val(state.response).content # <<>>
            /\ \A i \in 1..Len(state.errors) : state.errors[i].agent # "reporter"
            /\ node = "END" /\ route = "complete"

\* C29 witness: analyze failed after collect and retrieve, and report has
\* ended the run in done with the fallback text.
C29_Witness ==
    /\ AnalyzeFailed
    /\ Last(visited) = "reporter"
    /\ InSeq("collector", visited) /\ InSeq("rag", visited)
    /\ node = "END" /\ route = "complete"
    /\ Val(state.response).content[1] = "could not complete analysis"

\* ------------------------------------------------------------ rate limit
\* The requests of one identifier that arrive within one window, and the
\* limit the middleware passes.
MaxRequests == 4
RateLimit == 2

RequestIds == 1..MaxRequests

\* A request whose call of check_rate_limit is about to read the counter.
Arrived == [pc |-> "get", current |-> None, allowed |-> None, remaining |-> None,
            failed |-> FALSE]

InitLimiter ==
    /\ WorkflowIdle
    /\ ToolIdle /\ ChunkerIdle /\ RetrieverIdle /\ FormatIdle
    /\ RecordIdle /\ GatherIdle
    /\ counter = None
    /\ requests = [r \in RequestIds |-> Arrived]

LimiterStep(r, request) ==
    /\ requests' = [requests EXCEPT ![r] = request]
    /\ UNCHANGED <<workflowVars, toolVars, chunkerVars, retrieverVars, formatVars>>
    /\ UNCHANGED <<recordVars, gatherVars>>

\* "current = await self.client.get(key)": the call reads the counter and
\* is suspended; a counter at the limit makes it return (False, 0) when it
\* resumes, without another access to the cache.
check_rate_limit_get(r) ==
    /\ requests[r].pc = "get"
    /\ IF Has(counter) /\ Val(counter) >= RateLimit
       THEN LimiterStep(r, [requests[r] EXCEPT !.pc = "done",
                                               !.current = counter,
                                               !.allowed = Some(FALSE),
                                               !.remaining = Some(0)])
       ELSE LimiterStep(r, [requests[r] EXCEPT !.pc = "write",
                                               !.current = counter])
    /\ UNCHANGED counter

\* The write that follows the read: setex(key, window, 1) when the read
\* found no counter, incr(key) otherwise; the call returns True.
check_rate_limit_write(r) ==
    /\ requests[r].pc = "write"
    /\ IF requests[r].current = None
       THEN /\ counter' = Some(1)
            /\ LimiterStep(r, [requests[r] EXCEPT
                                !.pc = "done",
                                !.allowed = Some(TRUE),
                                !.remaining = Some(RateLimit - 1)])
       ELSE /\ counter' = Some(IF Has(counter) THEN Val(counter) + 1 ELSE 1)
            /\ LimiterStep(r, [requests[r] EXCEPT
                                !.pc = "done",
                                !.allowed = Some(TRUE),
                                !.remaining =
                                    Some(RateLimit - Val(requests[r].current) - 1)])

\* An access to the cache raises: the handler returns (True, limit).
check_rate_limit_raises(r) ==
    /\ requests[r].pc \in {"get", "write"}
    /\ LimiterStep(r, [requests[r] EXCEPT !.pc = "done",
                                          !.allowed = Some(TRUE),
                                          !.remaining = Some(RateLimit),
                                          !.failed = TRUE])
    /\ UNCHANGED counter

NextLimiter ==
    \E r \in RequestIds :
        \/ check_rate_limit_get(r)
        \/ check_rate_limit_write(r)
        \/ check_rate_limit_raises(r)

SpecLimiter == InitLimiter /\ [][NextLimiter]_vars

\* The requests check_rate_limit has admitted.
Admitted == {r \in DOMAIN requests : requests[r].allowed = Some(TRUE)}

\* C30: check_rate_limit admits at most limit requests of one identifier
\* within one window, also when the calls run concurrently and their reads
\* and writes of the cache interleave (no access to the cache failing).
C30_AtMostLimitAdmitted ==
    (\A r \in DOMAIN requests : ~requests[r].failed)
        => Cardinality(Admitted) <= RateLimit

====
